---- MODULE Spec2Model ----
(***************************************************************************)
(* Model of the SSQR product-registration service (src/app.py).            *)
(*                                                                         *)
(* The Flask handlers are stateless; all durable state is the remote       *)
(* `equipment` table.  Every handler is cut at its store calls: one action *)
(* runs the handler from its entry up to and including its first store     *)
(* call and the decision taken on the result, a second action (for the two *)
(* handlers that write) runs the rest.  Requests of different slots        *)
(* interleave freely between those actions, as concurrent WSGI requests    *)
(* do.  A store call either answers or raises, and when it raises the      *)
(* handler's `except Exception` answers 500.                               *)
(***************************************************************************)
EXTENDS Integers, Sequences, FiniteSets, TLC

\* ------------------------------------------------------------------ bounds
MaxReq == 2        \* request slots that may be in flight at once
MaxTokens == 2     \* tokens the issuer hands out (caps the inserts)
MaxTime == 1       \* instants run 0..MaxTime

Reqs == 1..MaxReq

\* ------------------------------------------------------ values and options
\* A nullable column / an optional Python value: None, or Some(v).
None == <<>>
Some(v) == <<v>>

\* Python truthiness of an optional string: None and '' are falsy.
Truthy(x) == x # None /\ x # Some("")

\* dict.get(key, default)
DictGet(d, key, default) == IF key \in DOMAIN d THEN d[key] ELSE default

\* ------------------------------------------------------------------ inputs
\* '?'.join(fields): how the ERP writes a QR payload; a string is a sequence
\* of characters.
RECURSIVE join(_)
join(fields) ==
    IF Len(fields) = 0 THEN <<>>
    ELSE IF Len(fields) = 1 THEN fields[1]
    ELSE fields[1] \o <<"?">> \o join(Tail(fields))

\* The field lists the scanned payloads are made of: none, 1, 3, 4, 5, 6 and
\* 7 fields, with and without the two required ones.
QrFields ==
    {<<>>,
     << <<"A">> >>,
     << <<"A">>, <<"N">>, <<"G">> >>,
     << <<"A">>, <<"N">>, <<"G">>, <<"1">> >>,
     << <<>>, <<"N">>, <<"G">>, <<"1">> >>,
     << <<"A">>, <<"N">>, <<"G">>, <<>> >>,
     << <<>>, <<>>, <<>>, <<>> >>,
     << <<"B">>, <<"M">>, <<"H">>, <<"2">>, <<"C">> >>,
     << <<>>, <<"N">>, <<"G">>, <<"1">>, <<"C">> >>,
     << <<"B">>, <<"N">>, <<"G">>, <<>>, <<"C">> >>,
     << <<"A">>, <<"N">>, <<"G">>, <<"1">>, <<"C">>, <<"X">> >>,
     << <<"A">>, <<>>, <<>>, <<"1">>, <<>>, <<>>, <<>> >>}
QrStrings == {join(f) : f \in QrFields}

\* request.get_json(): None (no JSON body) or a dict.
Bodies == {None, Some(<<>>)} \cup {Some([k \in {"qr_data"} |-> s]) : s \in QrStrings}

\* A few of them, for the requests that run concurrently: one of each kind.
FewQrFields ==
    {<< <<"A">>, <<"N">>, <<"G">> >>,
     << <<"A">>, <<"N">>, <<"G">>, <<"1">> >>,
     << <<"A">>, <<"N">>, <<"G">>, <<>> >>,
     << <<"B">>, <<"M">>, <<"H">>, <<"2">>, <<"C">> >>,
     << <<"A">>, <<"N">>, <<"G">>, <<"1">>, <<"C">>, <<"X">> >>}
FewBodies == {None} \cup {Some([k \in {"qr_data"} |-> join(f)]) : f \in FewQrFields}

\* Decimal rendering of a primary key, as it travels in a form field.
IdStr(n) == <<"1", "2", "3", "4", "5", "6", "7", "8", "9">>[n]
IdStrs == {IdStr(n) : n \in 1..MaxTokens}

Dates == {"2025-01-10", "2025-02-01"}

\* request.form of POST /update_installation_date: a field is absent (None)
\* or carries a string.
Form(id, date, carrier, dealer, lat, lon) ==
    [equipment_id |-> id, installation_date |-> date, carrier_info |-> carrier,
     dealer_code |-> dealer, latitude |-> lat, longitude |-> lon]

AllGiven == <<Some("c1"), Some("37.5"), Some("127.0")>>
NoneGiven == <<None, None, None>>

\* Forms whose coordinates are not both numbers: the longitude malformed, the
\* latitude malformed, the longitude absent.
BadGpsForms ==
    {Form(Some("1"), Some("2025-01-10"), None, Some("D1"), Some("37.5"), Some("abc")),
     Form(Some("1"), Some("2025-01-10"), None, Some("D1"), Some("abc"), Some("127.0")),
     Form(Some("1"), Some("2025-01-10"), None, Some("D1"), Some("37.5"), None)}

\* Complete forms: every field given, one with the optional fields absent, and
\* those with bad coordinates.
CompleteForms ==
    {Form(Some(id), Some(d), AllGiven[1], Some("D1"), AllGiven[2], AllGiven[3]) :
        id \in IdStrs, d \in Dates}
    \cup {Form(Some("1"), Some("2025-01-10"), None, Some("D1"), None, None)}
    \cup BadGpsForms

\* A few forms, for the requests that run concurrently: the complete ones that
\* address row 1 (of those with bad coordinates, the one with a malformed
\* longitude), and one refused for each reason.
FewForms ==
    {f \in CompleteForms :
        f.equipment_id = Some("1") /\ (f \in BadGpsForms => f.longitude = Some("abc"))}
    \cup {Form(Some("1"), None, None, Some("D1"), None, None),
          Form(Some("1"), Some("2025-01-10"), None, Some(""), None, None)}

\* Forms with mandatory fields absent or empty (the optional ones absent or
\* given).
IncompleteForms ==
    UNION {{Form(x, Some("2025-01-10"), opt[1], Some("D1"), opt[2], opt[3]),
            Form(Some("1"), x, opt[1], Some("D1"), opt[2], opt[3]),
            Form(Some("1"), Some("2025-01-10"), opt[1], x, opt[2], opt[3]),
            Form(x, x, opt[1], x, opt[2], opt[3])} :
        x \in {None, Some("")}, opt \in {NoneGiven, AllGiven}}

Forms == CompleteForms \cup IncompleteForms

\* request.form.get(key, default)
FormGet(form, key, default) == IF form[key] = None THEN default ELSE form[key]

\* ------------------------------------------------------------------- state
VARIABLES
    equipment,   \* the store's `equipment` table: a sequence of rows, row i has id i
    issued,      \* how many tokens secrets.token_urlsafe has produced
    pc,          \* pc[r]: where request slot r stands
    local,       \* local[r]: the handler's local variables between two store calls
    resp         \* the response sent last: its slot, handler, status and body, how many
                 \* store reads and writes the handler had issued and, for a
                 \* commit, which id it addressed, the date it wrote and the
                 \* dates that write replaced

vars == <<equipment, issued, pc, local, resp>>

NoLocal == [op |-> "none"]
NoResp ==
    [req |-> 0, op |-> "none", status |-> 0, body |-> "none", mimetype |-> "none",
     reads |-> 0, writes |-> 0]

Init ==
    /\ equipment = <<>>
    /\ issued = 0
    /\ pc = [r \in Reqs |-> "idle"]
    /\ local = [r \in Reqs |-> NoLocal]
    /\ resp = NoResp

\* --------------------------------------------------------------- the store
Rows == {equipment[i] : i \in 1..Len(equipment)}

\* Mutant of select_eq: the query only sees rows that are already installed.
select_eq_installed_only(column, value) ==
    {row \in Rows : row[column] = value /\ row.installation_date # None}

\* supabase.table('equipment').select(...).eq(column, value).execute().data
select_eq(column, value) == {row \in Rows : row[column] = value}

\* .eq('id', equipment_id): the id column is numeric, the form field a string
select_id(equipment_id) == {row \in Rows : Some(IdStr(row.id)) = equipment_id}

\* The instants a clock may show now: none earlier than one already recorded.
Stamps ==
    {row.created_at : row \in Rows}
    \cup {row.registration_timestamp[1] :
            row \in {x \in Rows : x.registration_timestamp # None}}
    \cup {row.updated_at[1] : row \in {x \in Rows : x.updated_at # None}}
Now == {t \in 0..MaxTime : \A s \in Stamps : s <= t}

\* Mutant of insert: the new row is stamped as installed at its creation.
insert_installed(fields, now) ==
    Append(equipment,
           [id |-> Len(equipment) + 1,
            access_token |-> fields.access_token,
            product_code |-> fields.product_code,
            product_name |-> fields.product_name,
            model |-> fields.model,
            unit_number |-> fields.unit_number,
            customer |-> fields.customer,
            created_at |-> now,
            updated_at |-> None,
            installation_date |-> Some("2025-01-10"),
            carrier_info |-> None,
            dealer_code |-> None,
            registration_latitude |-> None,
            registration_longitude |-> None,
            registration_timestamp |-> None])

\* supabase.table('equipment').insert(fields).execute() at instant now: the
\* store assigns id and created_at, every column not given is NULL.
insert(fields, now) ==
    Append(equipment,
           [id |-> Len(equipment) + 1,
            access_token |-> fields.access_token,
            product_code |-> fields.product_code,
            product_name |-> fields.product_name,
            model |-> fields.model,
            unit_number |-> fields.unit_number,
            customer |-> fields.customer,
            created_at |-> now,
            updated_at |-> None,
            installation_date |-> None,
            carrier_info |-> None,
            dealer_code |-> None,
            registration_latitude |-> None,
            registration_longitude |-> None,
            registration_timestamp |-> None])

\* One row with the columns of update_data overwritten.
patch(row, update_data) ==
    [c \in DOMAIN row |-> IF c \in DOMAIN update_data THEN update_data[c] ELSE row[c]]

\* Mutant of update: an upsert, which adds a record when none has the id.
update_upsert(update_data, equipment_id) ==
    IF \E i \in 1..Len(equipment) : Some(IdStr(equipment[i].id)) = equipment_id
    THEN [i \in 1..Len(equipment) |->
            IF Some(IdStr(equipment[i].id)) = equipment_id
            THEN patch(equipment[i], update_data)
            ELSE equipment[i]]
    ELSE Append(equipment,
                patch([id |-> Len(equipment) + 1, access_token |-> 0,
                       product_code |-> <<>>, product_name |-> <<>>, model |-> None,
                       unit_number |-> <<>>, customer |-> <<>>, created_at |-> 0,
                       updated_at |-> None, installation_date |-> None,
                       carrier_info |-> None, dealer_code |-> None,
                       registration_latitude |-> None,
                       registration_longitude |-> None,
                       registration_timestamp |-> None], update_data))

\* Mutant of update: only the installation date of update_data is written.
update_date_only(update_data, equipment_id) ==
    [i \in 1..Len(equipment) |->
        IF Some(IdStr(equipment[i].id)) = equipment_id
        THEN [equipment[i] EXCEPT !.installation_date = update_data.installation_date]
        ELSE equipment[i]]

\* Mutant of update: a conditional UPDATE ... WHERE installation_date IS NULL.
update_if_pending(update_data, equipment_id) ==
    [i \in 1..Len(equipment) |->
        IF Some(IdStr(equipment[i].id)) = equipment_id
           /\ equipment[i].installation_date = None
        THEN patch(equipment[i], update_data)
        ELSE equipment[i]]

\* supabase.table('equipment').update(update_data).eq('id', equipment_id).execute()
update(update_data, equipment_id) ==
    [i \in 1..Len(equipment) |->
        IF Some(IdStr(equipment[i].id)) = equipment_id
        THEN patch(equipment[i], update_data)
        ELSE equipment[i]]

\* ------------------------------------------------------------ token issuer
\* Mutant of token_urlsafe: the issuer hands out the value of its last call
\* again.
token_urlsafe_repeated == IF issued = 0 THEN issued + 1 ELSE issued

\* secrets.token_urlsafe(32): a value no earlier call returned.
token_urlsafe == issued + 1

\* --------------------------------------------------------------- responses
\* Handler op returns rsp: the slot is free again.
Respond(r, op, rsp) ==
    /\ pc' = [pc EXCEPT ![r] = "idle"]
    /\ local' = [local EXCEPT ![r] = NoLocal]
    /\ resp' = [req |-> r, op |-> op] @@ rsp

\* The handler goes on to its next store call with these locals.
Continue(r, at, locals) ==
    /\ pc' = [pc EXCEPT ![r] = at]
    /\ local' = [local EXCEPT ![r] = locals]
    /\ UNCHANGED resp

\* Mutant of Text: the string is sent as JSON.
Text_as_json(status, body, reads, writes) ==
    [status |-> status, body |-> body, mimetype |-> "application/json",
     reads |-> reads, writes |-> writes]

\* return "...", status: a view that returns a string answers text/html.
Text(status, body, reads, writes) ==
    [status |-> status, body |-> body, mimetype |-> "text/html",
     reads |-> reads, writes |-> writes]

\* jsonify({'error': ...}), status
Error(status, body, reads, writes) ==
    [status |-> status, body |-> body, mimetype |-> "application/json",
     reads |-> reads, writes |-> writes]

\* ---------------------------------------------------------- QR payload
\* str.split('?')
RECURSIVE split(_)
split(s) ==
    IF \A i \in 1..Len(s) : s[i] # "?"
    THEN <<s>>
    ELSE LET i == CHOOSE k \in 1..Len(s) : s[k] = "?" /\ \A j \in 1..(k - 1) : s[j] # "?"
         IN  <<SubSeq(s, 1, i - 1)>> \o split(SubSeq(s, i + 1, Len(s)))

\* ------------------------------------------------ POST /api/scan_qr
\* Mutant of qr_error: the upper limit on the field count is off by one.
qr_error_six_fields(qr_data) ==
    LET parts == split(qr_data)
    IN  IF qr_data = <<>> THEN "no_qr_data"
        ELSE IF Len(parts) < 4 \/ Len(parts) > 6 THEN "bad_format"
        ELSE IF parts[1] = <<>> \/ parts[4] = <<>> THEN "required"
        ELSE ""

\* The validation of the payload (app.py 35-51): the error it is refused
\* with, "" when it is accepted.
qr_error(qr_data) ==
    LET parts == split(qr_data)
    IN  IF qr_data = <<>> THEN "no_qr_data"
        ELSE IF Len(parts) < 4 \/ Len(parts) > 5 THEN "bad_format"
        ELSE IF parts[1] = <<>> \/ parts[4] = <<>> THEN "required"
        ELSE ""

\* Mutant of api_scan_qr: the 'exists' answer gives the stored record's group
\* and unit.
api_scan_qr_echo_stored(r, data, Oks) ==
    /\ pc[r] = "idle"
    /\ UNCHANGED <<equipment, issued>>
    /\ LET qr_data == IF data # None /\ data[1] # <<>>
                      THEN DictGet(data[1], "qr_data", <<>>)
                      ELSE <<>>
           parts == split(qr_data)
           refused == qr_error(qr_data)
       IN  IF refused # ""
           THEN Respond(r, "api_scan_qr", Error(400, refused, 0, 0))
           ELSE \E ok \in Oks :
                IF ~ok
                THEN Respond(r, "api_scan_qr", Error(500, "exception", 1, 0))
                ELSE LET existing == select_eq("product_code", parts[1])
                     IN  IF existing # {}
                         THEN \E equip \in existing :
                                Respond(r, "api_scan_qr", [status |-> 200, body |-> "exists",
                                            mimetype |-> "application/json",
                                            product_group |-> equip.model[1],
                                            unit_number |-> equip.unit_number,
                                            access_token |-> equip.access_token,
                                            already_installed |->
                                                equip.installation_date # None,
                                            reads |-> 1, writes |-> 0])
                         ELSE Continue(r, "insert",
                                  [op |-> "api_scan_qr",
                                   product_code |-> parts[1],
                                   product_name |-> parts[2],
                                   product_group |-> parts[3],
                                   unit_number |-> parts[4],
                                   customer |-> IF Len(parts) = 5 THEN parts[5] ELSE <<>>])

\* api_scan_qr up to the duplicate check (app.py 32-67).  Oks: the outcomes
\* the store call may have (TRUE it answers, FALSE it raises).
api_scan_qr(r, data, Oks) ==
    /\ pc[r] = "idle"
    /\ UNCHANGED <<equipment, issued>>
    /\ LET qr_data == IF data # None /\ data[1] # <<>>
                      THEN DictGet(data[1], "qr_data", <<>>)
                      ELSE <<>>
           parts == split(qr_data)
           refused == qr_error(qr_data)
       IN  IF refused # ""
           THEN Respond(r, "api_scan_qr", Error(400, refused, 0, 0))
           ELSE \E ok \in Oks :
                IF ~ok
                THEN Respond(r, "api_scan_qr", Error(500, "exception", 1, 0))
                ELSE LET existing == select_eq("product_code", parts[1])
                     IN  IF existing # {}
                         THEN \E equip \in existing :
                                Respond(r, "api_scan_qr", [status |-> 200, body |-> "exists",
                                                           mimetype |-> "application/json",
                                            product_group |-> parts[3],
                                            unit_number |-> parts[4],
                                            access_token |-> equip.access_token,
                                            already_installed |->
                                                equip.installation_date # None,
                                            reads |-> 1, writes |-> 0])
                         ELSE Continue(r, "insert",
                                  [op |-> "api_scan_qr",
                                   product_code |-> parts[1],
                                   product_name |-> parts[2],
                                   product_group |-> parts[3],
                                   unit_number |-> parts[4],
                                   customer |-> IF Len(parts) = 5 THEN parts[5] ELSE <<>>])

\* api_scan_qr from the token to the 'created' answer (app.py 69-86).
api_scan_qr_insert(r, Oks) ==
    /\ pc[r] = "insert"
    /\ issued < MaxTokens
    /\ issued' = issued + 1
    /\ LET l == local[r]
           access_token == token_urlsafe
       IN  \E ok \in Oks, now \in Now :
           IF ~ok
           THEN /\ UNCHANGED equipment
                /\ Respond(r, "api_scan_qr", Error(500, "exception", 1, 1))
           ELSE /\ equipment' = insert([product_code |-> l.product_code,
                                        product_name |-> l.product_name,
                                        model |-> Some(l.product_group),
                                        unit_number |-> l.unit_number,
                                        customer |-> l.customer,
                                        access_token |-> access_token], now)
                /\ Respond(r, "api_scan_qr", [status |-> 200, body |-> "created",
                                              mimetype |-> "application/json",
                               product_group |-> l.product_group,
                               unit_number |-> l.unit_number,
                               access_token |-> access_token,
                               reads |-> 1, writes |-> 1])

\* ------------------------------------- POST /update_installation_date
\* float(s): the strings Python parses as a number, and their value in tenths.
is_float(s) == s \in {"37.5", "127.0"}
float(s) == IF s = "37.5" THEN 375 ELSE 1270

\* Mutant of build_update_data: updated_at is not refreshed.
build_update_data_stale(l, now, later) ==
    [installation_date |-> l.installation_date,
     carrier_info |-> l.carrier_info,
     dealer_code |-> l.dealer_code,
     registration_timestamp |-> Some(now)]

\* Mutant of build_update_data: the installation date is not among the
\* columns written.
build_update_data_no_date(l, now, later) ==
    [carrier_info |-> l.carrier_info,
     dealer_code |-> l.dealer_code,
     registration_timestamp |-> Some(now),
     updated_at |-> Some(later)]

\* update_data as the handler builds it (app.py 1796-1811): the clock is read
\* twice, at now and then at later, and the GPS block assigns the latitude
\* before it parses the longitude.
build_update_data(l, now, later) ==
    LET base == [installation_date |-> l.installation_date,
                 carrier_info |-> l.carrier_info,
                 dealer_code |-> l.dealer_code,
                 registration_timestamp |-> Some(now),
                 updated_at |-> Some(later)]
        lat == l.latitude[1]
        lon == l.longitude[1]
    IN  IF Truthy(l.latitude) /\ Truthy(l.longitude)
        THEN IF ~is_float(lat)
             THEN base
             ELSE IF ~is_float(lon)
             THEN base @@ [registration_latitude |-> Some(float(lat))]
             ELSE base @@ [registration_latitude |-> Some(float(lat)),
                           registration_longitude |-> Some(float(lon))]
        ELSE base

\* Mutant of form_error: an installation date that is given but empty passes.
form_error_empty_date(equipment_id, installation_date, dealer_code) ==
    IF ~Truthy(equipment_id) \/ installation_date = None THEN "missing"
    ELSE IF ~Truthy(dealer_code) THEN "no_dealer"
    ELSE ""

\* Mutant of form_error: the dealer code is not checked.
form_error_no_dealer_check(equipment_id, installation_date, dealer_code) ==
    IF ~Truthy(equipment_id) \/ ~Truthy(installation_date) THEN "missing"
    ELSE ""

\* The validation of the form (app.py 1785-1789): the error it is refused
\* with, "" when it is accepted.
form_error(equipment_id, installation_date, dealer_code) ==
    IF ~Truthy(equipment_id) \/ ~Truthy(installation_date) THEN "missing"
    ELSE IF ~Truthy(dealer_code) THEN "no_dealer"
    ELSE ""

\* Mutant of already_registered: the check is left out.
already_registered_never(row) == FALSE

\* The re-registration check on the row read back (app.py 1793).
already_registered(row) == Truthy(row.installation_date)

\* update_installation_date up to the re-registration check (app.py 1778-1794).
update_installation_date(r, form, Oks) ==
    /\ pc[r] = "idle"
    /\ UNCHANGED <<equipment, issued>>
    /\ LET equipment_id == FormGet(form, "equipment_id", None)
           installation_date == FormGet(form, "installation_date", None)
           carrier_info == FormGet(form, "carrier_info", Some(""))
           dealer_code == FormGet(form, "dealer_code", Some(""))
           latitude == FormGet(form, "latitude", Some(""))
           longitude == FormGet(form, "longitude", Some(""))
           locals == [op |-> "update_installation_date",
                      equipment_id |-> equipment_id,
                      installation_date |-> installation_date,
                      carrier_info |-> carrier_info,
                      dealer_code |-> dealer_code,
                      latitude |-> latitude,
                      longitude |-> longitude]
           refused == form_error(equipment_id, installation_date, dealer_code)
       IN  IF refused # ""
           THEN Respond(r, "update_installation_date", Error(400, refused, 0, 0))
           ELSE \E ok \in Oks :
                IF ~ok
                THEN Respond(r, "update_installation_date", Error(500, "exception", 1, 0))
                ELSE LET existing == select_id(equipment_id)
                     IN  IF existing # {}
                         THEN \E row \in existing :
                                IF already_registered(row)
                                THEN Respond(r, "update_installation_date", Error(400, "already_registered", 1, 0))
                                ELSE Continue(r, "update", locals)
                         ELSE Continue(r, "update", locals)

\* update_installation_date from update_data to the success answer
\* (app.py 1796-1816).
update_installation_date_write(r, Oks) ==
    /\ pc[r] = "update"
    /\ UNCHANGED issued
    /\ \E ok \in Oks, now \in Now :
       \E later \in {t \in Now : now <= t} :
       LET l == local[r]
           update_data == build_update_data(l, now, later)
       IN  IF ~ok
           THEN /\ UNCHANGED equipment
                /\ Respond(r, "update_installation_date", Error(500, "exception", 1, 1))
           ELSE /\ equipment' = update(update_data, l.equipment_id)
                /\ Respond(r, "update_installation_date", [status |-> 200, body |-> "registered",
                                                           mimetype |-> "application/json",
                               reads |-> 1, writes |-> 1,
                               target |-> l.equipment_id,
                               written |-> l.installation_date,
                               replaced |-> {row.installation_date :
                                             row \in select_id(l.equipment_id)}])

\* ------------------------------------------------------- locale resolution
\* supported_langs (app.py 1720-1725), in the order of the source.
supported_langs ==
    <<"en", "ko", "ja", "zh", "id", "es",
      "vi", "th", "ar", "tr", "pt", "de", "fr", "it", "nl",
      "ru", "pl", "cs", "ro", "hu", "uk", "sv", "da", "no", "fi", "el",
      "fa", "bg", "sr", "hr", "sk", "sl">>

\* COUNTRY_LANG_MAP (app.py 1561-1712): some of its entries.
COUNTRY_LANG_MAP ==
    [country \in {"KR", "Korea", "JP", "CN", "CD", "AO"} |->
        CASE country \in {"KR", "Korea"} -> "ko"
          [] country = "JP" -> "ja"
          [] country = "CN" -> "zh"
          [] country = "CD" -> "fr"
          [] country = "AO" -> "pt"]

\* request.accept_languages: the language tags of the Accept-Language header
\* with their quality in tenths (plain tags: no wildcard, no region subtag).
Lang(value, quality) == [value |-> value, quality |-> quality]

AcceptLists ==
    {<<>>}
    \cup {<<Lang(v, q)>> : v \in {"fr", "ko", "xx"}, q \in {0, 5, 10}}
    \cup {l \in {<<Lang(v, 10), Lang(w, q)>> :
                    v \in {"fr", "en", "xx"}, w \in {"en", "ko", "sl", "yy"},
                    q \in {0, 9, 10}} :
            l[1].value # l[2].value}
    \cup {<<Lang("xx", 10), Lang("de", 8), Lang("ja", 8), Lang("sl", 3)>>}

\* The header of a browser that prefers French to English, and no header.
FewAcceptLists == {<<>>, <<Lang("fr", 10), Lang("en", 9)>>}

\* Mutant of best_match: the first language of the server's list that the
\* client accepts at all, whatever its quality.
best_match_first_accepted(accept, matches) ==
    LET accepted == {i \in 1..Len(matches) :
                        \E k \in 1..Len(accept) :
                            accept[k].value = matches[i] /\ accept[k].quality > 0}
    IN  {matches[i] : i \in {j \in accepted : \A k \in accepted : j <= k}}

\* accept_languages.best_match(matches): the outcomes it may have, none when
\* the client accepts no language of matches with a positive quality.  Among
\* the languages accepted with the highest quality the library chooses.
best_match(accept, matches) ==
    LET matching == {k \in 1..Len(accept) :
                        /\ accept[k].quality > 0
                        /\ \E i \in 1..Len(matches) : matches[i] = accept[k].value}
        qualities == {accept[k].quality : k \in matching}
        best_quality == CHOOSE q \in qualities : \A x \in qualities : x <= q
    IN  IF matching = {} THEN {}
        ELSE {accept[k].value : k \in {m \in matching : accept[m].quality = best_quality}}

\* Mutant of get_language: the record's country decides when the table has
\* an entry for it.
get_language_by_country(equip, accept) ==
    IF equip.country # None /\ equip.country[1] \in DOMAIN COUNTRY_LANG_MAP
    THEN {COUNTRY_LANG_MAP[equip.country[1]]}
    ELSE IF best_match(accept, supported_langs) # {}
    THEN best_match(accept, supported_langs)
    ELSE {"en"}

\* get_language (app.py 1715-1731): the languages it may return; the record
\* is not looked at.
get_language(equip, accept) ==
    LET browser_lang == best_match(accept, supported_langs)
    IN  IF browser_lang # {} THEN browser_lang ELSE {"en"}

\* The records get_language is handed: their stored country, if any.
LangRecords == {[country |-> c] : c \in {None, Some("KR"), Some("CD"), Some("ZZ")}}

\* One call of get_language, its arguments and result kept as the last answer.
resolve_language(r, equip, accept) ==
    /\ pc[r] = "idle"
    /\ UNCHANGED <<equipment, issued, pc, local>>
    /\ \E lang \in get_language(equip, accept) :
          resp' = [req |-> r, op |-> "get_language", status |-> 200, body |-> lang,
                   reads |-> 0, writes |-> 0, equipment |-> equip, accept |-> accept]

\* --------------------------------------------------- GET /scan/<token>
\* Mutant of scan_view: the registration form whatever the row.
scan_view_always_form(equip) == "scan.html"

\* The template scan renders for the row read (app.py 1762-1769).
scan_view(equip) ==
    IF Truthy(equip.installation_date) THEN "verification.html" ELSE "scan.html"

\* scan (app.py 1741-1773): which page the token gets.
scan(r, token, accept, Oks) ==
    /\ pc[r] = "idle"
    /\ UNCHANGED <<equipment, issued>>
    /\ \E ok \in Oks :
       IF ~ok
       THEN Respond(r, "scan", Text(500, "exception", 1, 0))
       ELSE LET result == select_eq("access_token", token)
            IN  IF result = {}
                THEN Respond(r, "scan", Text(404, "invalid_qr", 1, 0))
                ELSE \E equip \in result :
                     \E lang \in get_language(equip, accept) :
                        Respond(r, "scan", [status |-> 200, mimetype |-> "text/html",
                                    body |-> scan_view(equip),
                                    lang |-> lang,
                                    id |-> equip.id,
                                    reads |-> 1, writes |-> 0])

\* ------------------------------------------ GET /api/equipment/<product_code>
\* The product codes the look-ups ask for: two the payloads carry, one they
\* do not.
Codes == {<<"A">>, <<"B">>, <<"Z">>}

\* Mutant of api_get_equipment: the look-up marks the record it returns.
api_get_equipment_marking(r, product_code, Oks) ==
    /\ pc[r] = "idle"
    /\ UNCHANGED issued
    /\ \E ok \in Oks :
       IF ~ok
       THEN /\ UNCHANGED equipment
            /\ Respond(r, "api_get_equipment", Error(500, "exception", 1, 0))
       ELSE LET result == select_eq("product_code", product_code)
            IN  IF result = {}
                THEN /\ UNCHANGED equipment
                     /\ Respond(r, "api_get_equipment", Error(404, "not_found", 1, 0))
                ELSE \E row \in result :
                        /\ equipment' = update([customer |-> <<"R">>], Some(IdStr(row.id)))
                        /\ Respond(r, "api_get_equipment", [status |-> 200, body |-> "equipment",
                                    mimetype |-> "application/json",
                                    data |-> row, reads |-> 1, writes |-> 0])

\* api_get_equipment (app.py 94-111)
api_get_equipment(r, product_code, Oks) ==
    /\ pc[r] = "idle"
    /\ UNCHANGED <<equipment, issued>>
    /\ \E ok \in Oks :
       IF ~ok
       THEN Respond(r, "api_get_equipment", Error(500, "exception", 1, 0))
       ELSE LET result == select_eq("product_code", product_code)
            IN  IF result = {}
                THEN Respond(r, "api_get_equipment", Error(404, "not_found", 1, 0))
                ELSE \E row \in result :
                        Respond(r, "api_get_equipment", [status |-> 200, body |-> "equipment",
                                                         mimetype |-> "application/json",
                                    data |-> row, reads |-> 1, writes |-> 0])

\* ------------------------------------------------------- GET /api/equipment
\* int(s): the strings Python parses as an integer, and their value.
is_int(s) == s \in {"0", "1", "2", "1000", "1001", "5000"}
int(s) ==
    CASE s = "0" -> 0
      [] s = "1" -> 1
      [] s = "2" -> 2
      [] s = "1000" -> 1000
      [] s = "1001" -> 1001
      [] s = "5000" -> 5000

\* Mutant of min: the first argument.
min_first(a, b) == a

\* min(a, b)
min(a, b) == IF b < a THEN b ELSE a

\* request.args of the listing: status, model, limit, offset (the date
\* filters are left absent).
Query(status, model, limit, offset) ==
    [status |-> status, model |-> model, limit |-> limit, offset |-> offset]

ListQueries ==
    {Query(None, None, None, None),
     Query(Some("pending"), None, Some("1"), None),
     Query(Some("completed"), Some(<<"G">>), None, Some("1")),
     Query(Some("all"), None, Some("abc"), None),
     Query(None, None, Some("5000"), None),
     Query(None, None, Some("1001"), Some("1")),
     Query(None, None, Some("0"), None)}

\* The listings of the concurrent specification: the default, a page of one
\* pending row and one whose limit is not a number.
FewListQueries ==
    {Query(None, None, None, None), Query(Some("pending"), None, Some("1"), None),
     Query(Some("all"), None, Some("abc"), None)}

\* The rows of a set in every order that .order('created_at', desc=True) may
\* return them.
Orders(S) ==
    {seq \in [1..Cardinality(S) -> S] :
        /\ \A i, j \in 1..Cardinality(S) : i # j => seq[i] # seq[j]
        /\ \A i, j \in 1..Cardinality(S) :
              i < j => seq[i].created_at >= seq[j].created_at}

\* .range(first, last) on an ordered result: positions first..last, from 0.
range(seq, first, last) ==
    SubSeq(seq, first + 1, IF last + 1 < Len(seq) THEN last + 1 ELSE Len(seq))

\* api_list_equipment (app.py 115-172): a limit or offset that is not an
\* integer raises before the store is called.
api_list_equipment(r, args, Oks) ==
    /\ pc[r] = "idle"
    /\ UNCHANGED <<equipment, issued>>
    /\ LET status == FormGet(args, "status", Some("all"))[1]
           model == args.model
           limit_arg == FormGet(args, "limit", Some("100"))[1]
           offset_arg == FormGet(args, "offset", Some("0"))[1]
           limit == min(IF limit_arg = "100" THEN 100 ELSE int(limit_arg), 1000)
           offset == IF offset_arg = "0" THEN 0 ELSE int(offset_arg)
           matching ==
               {row \in Rows :
                   /\ status = "pending" => row.installation_date = None
                   /\ status = "completed" => row.installation_date # None
                   /\ (model # None /\ model[1] # <<>>) => row.model = model}
       IN  IF \/ ~(limit_arg = "100" \/ is_int(limit_arg))
              \/ ~(offset_arg = "0" \/ is_int(offset_arg))
           THEN Respond(r, "api_list_equipment", Error(500, "exception", 0, 0))
           ELSE \E ok \in Oks :
                IF ~ok
                THEN Respond(r, "api_list_equipment", Error(500, "exception", 1, 0))
                ELSE \E ordered \in Orders(matching) :
                     LET data == range(ordered, offset, offset + limit - 1)
                     IN  Respond(r, "api_list_equipment", [status |-> 200, body |-> "list",
                                                           mimetype |-> "application/json",
                                     count |-> Len(data), offset |-> offset,
                                     limit |-> limit, data |-> data,
                                     reads |-> 1, writes |-> 0])

\* -------------------------------------------------- POST /api/equipment/bulk
\* request.get_json() of the bulk look-up: no body, a dict without the list,
\* an empty list, lists of one and two codes, and lists of 100 and of 101.
BulkBodies ==
    {None, Some(<<>>)}
    \cup {Some([k \in {"product_codes"} |-> codes]) :
            codes \in {<<>>, << <<"A">> >>, << <<"Z">>, <<"A">> >>,
                       [i \in 1..100 |-> <<"Z">>], [i \in 1..101 |-> <<"Z">>]}}

\* The look-ups of the concurrent specification: no body, two codes, and 101.
FewBulkBodies ==
    {None}
    \cup {Some([k \in {"product_codes"} |-> codes]) :
            codes \in {<< <<"Z">>, <<"A">> >>, [i \in 1..101 |-> <<"Z">>]}}

\* Mutant of not_found: every requested code.
not_found_all(product_codes, found_codes) == product_codes

\* [code for code in product_codes if code not in found_codes] (app.py 205)
not_found(product_codes, found_codes) ==
    SelectSeq(product_codes, LAMBDA code : code \notin found_codes)

\* api_bulk_equipment (app.py 176-214): data.get raises on a missing body.
api_bulk_equipment(r, data, Oks) ==
    /\ pc[r] = "idle"
    /\ UNCHANGED <<equipment, issued>>
    /\ IF data = None
       THEN Respond(r, "api_bulk_equipment", Error(500, "exception", 0, 0))
       ELSE LET product_codes == DictGet(data[1], "product_codes", <<>>)
            IN  IF product_codes = <<>>
                THEN Respond(r, "api_bulk_equipment", Error(400, "codes_required", 0, 0))
                ELSE IF Len(product_codes) > 100
                THEN Respond(r, "api_bulk_equipment", Error(400, "too_many", 0, 0))
                ELSE \E ok \in Oks :
                     IF ~ok
                     THEN Respond(r, "api_bulk_equipment", Error(500, "exception", 1, 0))
                     ELSE LET result ==
                                  {row \in Rows :
                                      \E i \in 1..Len(product_codes) :
                                          row.product_code = product_codes[i]}
                              found_codes == {eq.product_code : eq \in result}
                          IN  Respond(r, "api_bulk_equipment", [status |-> 200, body |-> "bulk",
                                                                mimetype |-> "application/json",
                                          found |-> result,
                                          not_found |-> not_found(product_codes, found_codes),
                                          reads |-> 1, writes |-> 0])

\* ----------------------------------------------------------- GET /api/stats
\* The default api_stats gives dict.get for a row without a model.
Unclassified == Some(<<"unclassified">>)

\* Mutant of by_model: every row is counted as completed.
by_model_all_completed(rows) ==
    [model \in {DictGet(eq, "model", Unclassified) : eq \in rows} |->
        LET group == {eq \in rows : DictGet(eq, "model", Unclassified) = model}
        IN  [total |-> Cardinality(group),
             completed |-> Cardinality(group),
             pending |-> Cardinality({eq \in group : ~Truthy(eq.installation_date)})]]

\* by_model as api_stats builds it (app.py 236-246): the key of a row is
\* eq.get('model', default), the default only for a row without the column.
by_model(rows) ==
    [model \in {DictGet(eq, "model", Unclassified) : eq \in rows} |->
        LET group == {eq \in rows : DictGet(eq, "model", Unclassified) = model}
        IN  [total |-> Cardinality(group),
             completed |-> Cardinality({eq \in group : Truthy(eq.installation_date)}),
             pending |-> Cardinality({eq \in group : ~Truthy(eq.installation_date)})]]

\* jsonify sorts the keys of a dict: with a null key beside string keys the
\* sort may raise, depending on the JSON provider's sort_keys setting.
jsonify_may_raise(stats) == None \in DOMAIN stats /\ DOMAIN stats # {None}

\* api_stats (app.py 218-257)
api_stats(r, Oks) ==
    /\ pc[r] = "idle"
    /\ UNCHANGED <<equipment, issued>>
    /\ \E ok \in Oks :
       IF ~ok
       THEN Respond(r, "api_stats", Error(500, "exception", 1, 0))
       ELSE LET total == Cardinality(Rows)
                pending == Cardinality({eq \in Rows : ~Truthy(eq.installation_date)})
            IN  \/ Respond(r, "api_stats", [status |-> 200, body |-> "stats",
                                            mimetype |-> "application/json",
                            total |-> total, pending |-> pending,
                            completed |-> total - pending,
                            by_model |-> by_model(Rows),
                            reads |-> 1, writes |-> 0])
                \/ /\ jsonify_may_raise(by_model(Rows))
                   /\ Respond(r, "api_stats", Error(500, "exception", 1, 0))

\* ----------------------------------------------------------- GET /dashboard
\* model_stats as dashboard builds it (app.py 1834-1844): the key of a row
\* is eq['model'].
model_stats(rows) ==
    [model \in {eq.model : eq \in rows} |->
        LET group == {eq \in rows : eq.model = model}
        IN  [total |-> Cardinality(group),
             completed |-> Cardinality({eq \in group : Truthy(eq.installation_date)}),
             pending |-> Cardinality({eq \in group : ~Truthy(eq.installation_date)})]]

\* Calendar dates, and the date strings of the model with the date each
\* parses to (datetime.strptime(s[:10], '%Y-%m-%d'), datetime.fromisoformat).
Date(y, m, d) == [year |-> y, month |-> m, day |-> d]

DateStrings ==
    {<<"2024-12-31", Date(2024, 12, 31)>>, <<"2025-01-01", Date(2025, 1, 1)>>,
     <<"2025-01-08", Date(2025, 1, 8)>>, <<"2025-01-09", Date(2025, 1, 9)>>,
     <<"2025-01-10", Date(2025, 1, 10)>>, <<"2025-01-11", Date(2025, 1, 11)>>,
     <<"2025-01-15", Date(2025, 1, 15)>>, <<"2025-01-16", Date(2025, 1, 16)>>,
     <<"2025-01-31", Date(2025, 1, 31)>>, <<"2025-02-01", Date(2025, 2, 1)>>,
     <<"2025-03-02", Date(2025, 3, 2)>>, <<"2025-03-03", Date(2025, 3, 3)>>,
     <<"2025-04-15", Date(2025, 4, 15)>>, <<"2025-05-15", Date(2025, 5, 15)>>,
     <<"2025-06-15", Date(2025, 6, 15)>>, <<"2025-07-15", Date(2025, 7, 15)>>}

strptime(date_str) == (CHOOSE e \in DateStrings : e[1] = date_str)[2]

\* date.toordinal(): the days from 0001-01-01, that day being 1.
is_leap(y) == y % 4 = 0 /\ (y % 100 # 0 \/ y % 400 = 0)
days_in_month(y, m) ==
    IF m = 2 THEN (IF is_leap(y) THEN 29 ELSE 28)
    ELSE IF m \in {4, 6, 9, 11} THEN 30 ELSE 31
RECURSIVE days_before_month(_, _)
days_before_month(y, m) ==
    IF m = 1 THEN 0 ELSE days_before_month(y, m - 1) + days_in_month(y, m - 1)
days_before_year(y) ==
    (y - 1) * 365 + (y - 1) \div 4 - (y - 1) \div 100 + (y - 1) \div 400
toordinal(date) ==
    days_before_year(date.year) + days_before_month(date.year, date.month) + date.day

\* The calendar day of a store instant: instants count days from 2025-01-01.
created_date(created_at) == toordinal(Date(2025, 1, 1)) + created_at

\* strftime('%Y-%m') of an installation date: year and month.
month_key(date_str) == <<strptime(date_str).year, strptime(date_str).month>>

\* 'YYYY-MM' keys compare as (year, month) pairs do.
month_before(a, b) == a[1] < b[1] \/ (a[1] = b[1] /\ a[2] < b[2])

\* sorted(items): the keys of a set in ascending order.
RECURSIVE sorted(_)
sorted(keys) ==
    IF keys = {} THEN <<>>
    ELSE LET least == CHOOSE k \in keys : \A other \in keys \ {k} : month_before(k, other)
         IN  <<least>> \o sorted(keys \ {least})

\* Mutant of last_six: the first six items.
first_six(items) == SubSeq(items, 1, IF Len(items) < 6 THEN Len(items) ELSE 6)

\* items[-6:]
last_six(items) == SubSeq(items, IF Len(items) > 6 THEN Len(items) - 5 ELSE 1, Len(items))

\* The monthly trend (app.py 1846-1860): month and count, ascending, the
\* last six.
sorted_months(completed) ==
    LET months == {month_key(eq.installation_date[1]) : eq \in completed}
        count(m) == Cardinality({eq \in completed :
                                    month_key(eq.installation_date[1]) = m})
        keys == last_six(sorted(months))
    IN  [i \in 1..Len(keys) |-> <<keys[i], count(keys[i])>>]

\* (install_date - created_date).days (app.py 1872-1886)
lead_time(eq) == toordinal(strptime(eq.installation_date[1])) - created_date(eq.created_at)

\* Mutant of lead_time_range: the upper limits are exclusive.
lead_time_range_exclusive(days) ==
    IF days < 7 THEN "0-7"
    ELSE IF days < 14 THEN "8-14"
    ELSE IF days < 30 THEN "15-30"
    ELSE IF days < 60 THEN "31-60"
    ELSE "60+"

\* The bucket of a lead time (app.py 1889-1899).
lead_time_range(days) ==
    IF days <= 7 THEN "0-7"
    ELSE IF days <= 14 THEN "8-14"
    ELSE IF days <= 30 THEN "15-30"
    ELSE IF days <= 60 THEN "31-60"
    ELSE "60+"

lead_time_ranges(completed) ==
    [b \in {"0-7", "8-14", "15-30", "31-60", "60+"} |->
        Cardinality({eq \in completed : lead_time_range(lead_time(eq)) = b})]

\* Mutant of sum: lead times below zero are not added.
sum_non_negative(completed) ==
    LET F[rows \in SUBSET completed] ==
            IF rows = {} THEN 0
            ELSE LET eq == CHOOSE e \in rows : TRUE
                     days == IF lead_time(eq) < 0 THEN 0 ELSE lead_time(eq)
                 IN  days + F[rows \ {eq}]
    IN  F[completed]

\* sum(lead_times), one lead time for each completed row (app.py 1866-1901).
sum(completed) ==
    LET F[rows \in SUBSET completed] ==
            IF rows = {} THEN 0
            ELSE LET eq == CHOOSE e \in rows : TRUE
                 IN  lead_time(eq) + F[rows \ {eq}]
    IN  F[completed]

\* round(total / count, 1) in tenths: the nearest tenth, a tie going to the
\* even one (the ties that arise with fewer than 20 lead times, at .25 and
\* .75, are exact in binary floating point).
round(total, count) ==
    LET lower == (10 * total) \div count
        rest == (10 * total) % count
    IN  IF 2 * rest < count THEN lower
        ELSE IF 2 * rest > count THEN lower + 1
        ELSE IF lower % 2 = 0 THEN lower ELSE lower + 1

\* avg_lead_time (app.py 1901, 1911), in tenths of a day.
avg_lead_time(completed) ==
    IF completed = {} THEN 0 ELSE round(sum(completed), Cardinality(completed))

\* dashboard (app.py 1823-1919): the figures handed to the template.
dashboard(r, Oks) ==
    /\ pc[r] = "idle"
    /\ UNCHANGED <<equipment, issued>>
    /\ \E ok \in Oks :
       IF ~ok
       THEN Respond(r, "dashboard", Text(500, "exception", 1, 0))
       ELSE LET pending == {eq \in Rows : ~Truthy(eq.installation_date)}
                completed == {eq \in Rows : Truthy(eq.installation_date)}
            IN  Respond(r, "dashboard", [status |-> 200, body |-> "dashboard.html",
                            mimetype |-> "text/html",
                            total_count |-> Cardinality(Rows),
                            pending_count |-> Cardinality(pending),
                            completed_count |-> Cardinality(completed),
                            model_stats |-> model_stats(Rows),
                            monthly_stats |-> sorted_months(completed),
                            avg_lead_time |-> avg_lead_time(completed),
                            lead_time_ranges |-> lead_time_ranges(completed),
                            reads |-> 1, writes |-> 0])

\* ---------------------------------------------------------- specifications
Tokens == 1..(MaxTokens + 1)

\* Concurrent requests; any store call may raise.
Next ==
    \/ \E r \in Reqs, data \in FewBodies : api_scan_qr(r, data, BOOLEAN)
    \/ \E r \in Reqs : api_scan_qr_insert(r, BOOLEAN)
    \/ \E r \in Reqs, form \in FewForms : update_installation_date(r, form, BOOLEAN)
    \/ \E r \in Reqs : update_installation_date_write(r, BOOLEAN)
    \/ \E r \in Reqs, token \in Tokens, accept \in FewAcceptLists :
          scan(r, token, accept, BOOLEAN)
    \/ \E r \in Reqs, product_code \in Codes : api_get_equipment(r, product_code, BOOLEAN)
    \/ \E r \in Reqs, args \in FewListQueries : api_list_equipment(r, args, BOOLEAN)
    \/ \E r \in Reqs, data \in FewBulkBodies : api_bulk_equipment(r, data, BOOLEAN)
    \/ \E r \in Reqs : api_stats(r, BOOLEAN)
    \/ \E r \in Reqs : dashboard(r, BOOLEAN)

Spec == Init /\ [][Next]_vars

\* No other request is between two store calls.
Alone(r) == \A q \in Reqs \ {r} : pc[q] = "idle"

\* One request after the other, each running to its answer before the next
\* starts, no store call raising; every payload and every form.
SeqNext ==
    \/ \E r \in Reqs, data \in Bodies : Alone(r) /\ api_scan_qr(r, data, {TRUE})
    \/ \E r \in Reqs : Alone(r) /\ api_scan_qr_insert(r, {TRUE})
    \/ \E r \in Reqs, form \in Forms : Alone(r) /\ update_installation_date(r, form, {TRUE})
    \/ \E r \in Reqs : Alone(r) /\ update_installation_date_write(r, {TRUE})
    \/ \E r \in Reqs, token \in Tokens, accept \in FewAcceptLists :
          Alone(r) /\ scan(r, token, accept, {TRUE})
    \/ \E r \in Reqs, product_code \in Codes :
          Alone(r) /\ api_get_equipment(r, product_code, {TRUE})
    \/ \E r \in Reqs, args \in ListQueries :
          Alone(r) /\ api_list_equipment(r, args, {TRUE})
    \/ \E r \in Reqs, data \in BulkBodies :
          Alone(r) /\ api_bulk_equipment(r, data, {TRUE})
    \/ \E r \in Reqs : Alone(r) /\ api_stats(r, {TRUE})
    \/ \E r \in Reqs : Alone(r) /\ dashboard(r, {TRUE})

SeqSpec == Init /\ [][SeqNext]_vars

\* A row as the reports read it: its model (null, or a name), the instant of
\* its creation and its installation date (null, or a date string).
ReportRow(id, model, created_at, installation_date) ==
    [id |-> id, access_token |-> id, product_code |-> <<IdStr(id)>>,
     product_name |-> <<"N">>, model |-> model, unit_number |-> <<"1">>,
     customer |-> <<>>, created_at |-> created_at,
     updated_at |-> IF installation_date = None THEN None ELSE Some(created_at),
     installation_date |-> installation_date,
     carrier_info |-> IF installation_date = None THEN None ELSE Some(""),
     dealer_code |-> IF installation_date = None THEN None ELSE Some("D1"),
     registration_latitude |-> None, registration_longitude |-> None,
     registration_timestamp |->
        IF installation_date = None THEN None ELSE Some(created_at)]

\* Installation dates 0, 7, 8, 10, 14, 15, 30, 31, 60 and 61 days after
\* 2025-01-01, and one the day before it.
LeadDates ==
    {"2024-12-31", "2025-01-01", "2025-01-08", "2025-01-09", "2025-01-11",
     "2025-01-15", "2025-01-16", "2025-01-31", "2025-02-01", "2025-03-02",
     "2025-03-03"}

\* One installation date in each of eight months.
MonthDates ==
    <<"2024-12-31", "2025-01-10", "2025-02-01", "2025-03-02",
      "2025-04-15", "2025-05-15", "2025-06-15", "2025-07-15">>

\* Tables of up to two rows: each with or without a model, created at
\* 2025-01-01 or the day after, pending or installed at one of LeadDates.
PairTables ==
    LET pool == {<<model, created_at, installation_date>> :
                    model \in {None, Some(<<"G">>), Some(<<"H">>)},
                    created_at \in {0, 1},
                    installation_date \in {None} \cup {Some(d) : d \in LeadDates}}
        row(id, p) == ReportRow(id, p[1], p[2], p[3])
    IN  {<<>>} \cup {<<row(1, p)>> : p \in pool}
        \cup {<<row(1, p), row(2, q)>> : p \in pool, q \in pool}

\* Tables with one installed row for each month of a choice of months, in
\* any of two orders, and a second row for the latest month chosen.
MonthTables ==
    LET pick(S) ==
            LET F[i \in 0..Len(MonthDates)] ==
                    IF i = 0 THEN <<>>
                    ELSE IF i \in S THEN Append(F[i - 1], MonthDates[i]) ELSE F[i - 1]
            IN  F[Len(MonthDates)]
        table(dates) ==
            [i \in 1..Len(dates) |-> ReportRow(i, Some(<<"G">>), 0, Some(dates[i]))]
        reversed(dates) == [i \in 1..Len(dates) |-> dates[Len(dates) + 1 - i]]
        chosen == {pick(S) : S \in (SUBSET (1..Len(MonthDates))) \ {{}}}
    IN  {table(dates) : dates \in chosen}
        \cup {table(reversed(dates) \o <<dates[Len(dates)]>>) : dates \in chosen}

ReportTables == PairTables \cup MonthTables

\* The reports on their own, over any table.
ReportInit ==
    /\ equipment \in ReportTables
    /\ issued = 0
    /\ pc = [r \in Reqs |-> "idle"]
    /\ local = [r \in Reqs |-> NoLocal]
    /\ resp = NoResp

ReportNext ==
    \/ \E r \in Reqs : api_stats(r, BOOLEAN)
    \/ \E r \in Reqs : dashboard(r, BOOLEAN)

ReportSpec == ReportInit /\ [][ReportNext]_vars

\* Ingests alone, concurrent, any store call raising: payloads that give the
\* same product code with different names, groups, units and customers, one
\* of another code, and one that is refused.
EchoQrFields ==
    {<< <<"A">>, <<"N">>, <<"G">>, <<"1">> >>,
     << <<"A">>, <<"M">>, <<"H">>, <<"2">>, <<"C">> >>,
     << <<"B">>, <<"M">>, <<"H">>, <<"2">>, <<"C">> >>,
     << <<"A">> >>}
EchoBodies == {Some([k \in {"qr_data"} |-> join(f)]) : f \in EchoQrFields}

IngestNext ==
    \/ \E r \in Reqs, data \in EchoBodies : api_scan_qr(r, data, BOOLEAN)
    \/ \E r \in Reqs : api_scan_qr_insert(r, BOOLEAN)

IngestSpec == Init /\ [][IngestNext]_vars

\* get_language on its own, applied to every record and header.
LangNext ==
    \E r \in Reqs, equip \in LangRecords, accept \in AcceptLists :
        resolve_language(r, equip, accept)

LangSpec == Init /\ [][LangNext]_vars

\* ------------------------------------------------------------------ claims
Ids == 1..Len(equipment)

\* The rows a commit with this equipment_id addresses.
Addressed(equipment_id) == {i \in Ids : Some(IdStr(i)) = equipment_id}

\* Slot r takes the step that ends its commit (its UPDATE call).
CommitEnds(r) == pc[r] = "update" /\ pc'[r] = "idle"

\* Slot r, idle, may have taken the first step of handler op: it stands at
\* the handler's second store call, or the last answer is one of op to r.
Starts(r, op, at) ==
    /\ pc[r] = "idle"
    /\ \/ pc'[r] = at
       \/ pc'[r] = "idle" /\ resp'.req = r /\ resp'.op = op

\* C1: a row's installation_date, once set, is never changed again and never
\* returns to null, whatever the interleaving of requests.
InstallationDateSetOnce ==
    [][\A i \in Ids :
          equipment[i].installation_date # None
          => /\ i <= Len(equipment')
             /\ equipment'[i].installation_date = equipment[i].installation_date]_vars

\* C2: requests running one after the other: a commit for a row whose
\* installation_date is already set is answered 400 'already registered' at
\* its re-read, issues no store write and leaves every row as it was.
SecondCommitRejected ==
    [][\A r \in {q \in Reqs : Starts(q, "update_installation_date", "update")} :
       \A form \in Forms :
          (/\ form_error(form.equipment_id, form.installation_date, form.dealer_code) = ""
           /\ \E i \in Addressed(form.equipment_id) :
                 equipment[i].installation_date # None
           /\ update_installation_date(r, form, {TRUE}))
          => /\ resp'.req = r
             /\ resp'.status = 400
             /\ resp'.body = "already_registered"
             /\ resp'.writes = 0
             /\ pc'[r] = "idle"
             /\ equipment' = equipment]_vars

\* C2 witness: the last answer is 'already registered', for a row that a first
\* commit has installed.
SecondCommitRejectedWitness ==
    /\ resp.body = "already_registered"
    /\ \E i \in Ids : equipment[i].installation_date \in {Some(d) : d \in Dates}

\* C3: a commit that has passed the re-registration check is never answered
\* with a conflict: unless the store raises, its UPDATE is answered with
\* success and overwrites installation_date, dealer_code, carrier_info and the
\* registration instant of the row, whether or not another commit has
\* installed the row since the check.
RacingCommitOverwrites ==
    [][\A r \in Reqs :
          CommitEnds(r)
          => /\ resp'.req = r
             /\ \/ resp'.status = 500 /\ equipment' = equipment
                \/ /\ resp'.status = 200
                   /\ resp'.body = "registered"
                   /\ \A i \in Addressed(local[r].equipment_id) :
                         /\ equipment'[i].installation_date = local[r].installation_date
                         /\ equipment'[i].dealer_code = local[r].dealer_code
                         /\ equipment'[i].carrier_info = local[r].carrier_info
                         /\ equipment'[i].registration_timestamp \in {Some(t) : t \in Now}]_vars

\* C3 witness: two commits raced on one row: the last answer is a success for
\* a commit whose write replaced a date that an earlier commit had written,
\* with a different one.
RacingCommitsWitness ==
    /\ resp.status = 200
    /\ resp.body = "registered"
    /\ \E d \in Dates :
          /\ resp.replaced = {Some(d)}
          /\ resp.written # Some(d)
    /\ \E i \in Addressed(resp.target) : equipment[i].installation_date = resp.written

\* The payload of a JSON body, '' when there is none.
QrOf(data) == IF data # None /\ "qr_data" \in DOMAIN data[1] THEN data[1]["qr_data"] ELSE <<>>

\* Where the separators of a payload stand, and the n-th of them.
Seps(s) == {i \in 1..Len(s) : s[i] = "?"}
NthSep(s, n) == CHOOSE i \in Seps(s) : Cardinality({j \in Seps(s) : j < i}) = n - 1

\* A payload of 4 or 5 '?'-separated fields whose first and fourth fields are
\* not empty.
WellFormed(s) ==
    /\ Cardinality(Seps(s)) \in {3, 4}
    /\ s[1] # "?"
    /\ NthSep(s, 3) < Len(s)
    /\ s[NthSep(s, 3) + 1] # "?"

\* The well-formed payloads among those the requests carry.
WellFormedStrings == {s \in QrStrings : WellFormed(s)}

\* The product code of a well-formed payload: what stands before the first '?'.
CodeOf(s) == SubSeq(s, 1, NthSep(s, 1) - 1)

RowsWith(code) == {i \in Ids : equipment[i].product_code = code}

\* After the step, slot r has been answered 200 with the token of the one row
\* that holds this product code.
AnsweredTokenOf(r, code) ==
    /\ resp'.req = r
    /\ resp'.status = 200
    /\ \E i \in 1..Len(equipment') :
          /\ \A j \in 1..Len(equipment') :
                equipment'[j].product_code = code <=> j = i
          /\ resp'.access_token = equipment'[i].access_token

\* C4: requests running one after the other, no store call raising: every
\* ingest of a well-formed payload, the first as any repetition, is answered
\* with the token of the one row that holds its product code, and rows keep
\* their product code and token: repeated ingests return the same token and
\* leave exactly one row.
RepeatedIngestSameToken ==
    [][/\ \A i \in Ids :
             /\ i <= Len(equipment')
             /\ equipment'[i].access_token = equipment[i].access_token
             /\ equipment'[i].product_code = equipment[i].product_code
       /\ \A r \in {q \in Reqs : Starts(q, "api_scan_qr", "insert")} :
          \A s \in WellFormedStrings :
             (/\ pc'[r] = "idle"
              /\ api_scan_qr(r, Some([k \in {"qr_data"} |-> s]), {TRUE}))
             => AnsweredTokenOf(r, CodeOf(s))
       /\ \A r \in Reqs :
             (pc[r] = "insert" /\ pc'[r] = "idle")
             => AnsweredTokenOf(r, local[r].product_code)]_vars

\* C4 witness: a repeated ingest has been answered 'exists' with the token of
\* the only row of its product code.
RepeatedIngestWitness ==
    /\ resp.body = "exists"
    /\ \E i \in Ids :
          /\ equipment[i].access_token = resp.access_token
          /\ RowsWith(equipment[i].product_code) = {i}

\* C5: no two rows of the store hold the same product_code, whatever the
\* interleaving of ingests.
NoDuplicateProductCode ==
    \A i, j \in Ids : i # j => equipment[i].product_code # equipment[j].product_code

\* C6: no step changes the access_token of a row, and no two rows hold the
\* same access_token.
AccessTokenNeverReassigned ==
    [][/\ \A i \in Ids :
             /\ i <= Len(equipment')
             /\ equipment'[i].access_token = equipment[i].access_token
       /\ \A i, j \in 1..Len(equipment') :
             i # j => equipment'[i].access_token # equipment'[j].access_token]_vars

\* C6 witness: two rows hold the two tokens issued, after a commit has
\* installed the first and a repeated ingest has been answered with its token.
AccessTokenWitness ==
    /\ Len(equipment) = 2
    /\ \A i \in Ids : equipment[i].access_token = i
    /\ equipment[1].installation_date # None
    /\ resp.op = "api_scan_qr"
    /\ resp.body = "exists"
    /\ resp.access_token = 1

\* C7: an ingest of a well-formed payload whose product code no row holds goes
\* on to insert, and its insert appends one PENDING row with a token no row
\* held and answers 'created' with that token; when a row holds the product
\* code, the ingest writes nothing and answers 'exists' with that row's token
\* and already_installed true exactly when its installation_date is set.
IngestCreatesOrReturns ==
    [][/\ \A r \in {q \in Reqs : Starts(q, "api_scan_qr", "insert")} :
          \A s \in WellFormedStrings :
             api_scan_qr(r, Some([k \in {"qr_data"} |-> s]), {TRUE})
             => /\ equipment' = equipment
                /\ IF RowsWith(CodeOf(s)) = {}
                   THEN /\ pc'[r] = "insert"
                        /\ local'[r].product_code = CodeOf(s)
                   ELSE /\ pc'[r] = "idle"
                        /\ resp'.req = r
                        /\ resp'.status = 200
                        /\ resp'.body = "exists"
                        /\ \E i \in RowsWith(CodeOf(s)) :
                              /\ resp'.access_token = equipment[i].access_token
                              /\ resp'.already_installed
                                    = (equipment[i].installation_date # None)
       /\ \A r \in Reqs :
             (pc[r] = "insert" /\ pc'[r] = "idle" /\ resp'.status # 500)
             => /\ Len(equipment') = Len(equipment) + 1
                /\ SubSeq(equipment', 1, Len(equipment)) = equipment
                /\ LET row == equipment'[Len(equipment')]
                   IN  /\ row.product_code = local[r].product_code
                       /\ row.installation_date = None
                       /\ \A i \in Ids : equipment[i].access_token # row.access_token
                       /\ resp'.req = r
                       /\ resp'.status = 200
                       /\ resp'.body = "created"
                       /\ resp'.access_token = row.access_token]_vars

\* C7 witness: an ingest has been answered 'exists' for an installed row.
IngestExistsWitness ==
    /\ resp.body = "exists"
    /\ resp.already_installed
    /\ \E i \in Ids :
          /\ equipment[i].access_token = resp.access_token
          /\ equipment[i].installation_date # None

\* C8: an ingest is refused with 400, before any store call and with the
\* store unchanged, exactly when its payload is not well-formed; a
\* well-formed payload reaches the store.
PayloadValidation ==
    [][\A r \in {q \in Reqs : Starts(q, "api_scan_qr", "insert")} :
       \A data \in Bodies :
          api_scan_qr(r, data, BOOLEAN)
          => IF QrOf(data) # <<>> /\ WellFormed(QrOf(data))
             THEN \/ pc'[r] = "insert"
                  \/ /\ resp'.req = r
                     /\ resp'.status \in {200, 500}
                     /\ resp'.reads = 1
             ELSE /\ pc'[r] = "idle"
                  /\ resp'.req = r
                  /\ resp'.status = 400
                  /\ resp'.reads = 0
                  /\ resp'.writes = 0
                  /\ equipment' = equipment]_vars

\* C8 witness: an ingest has been refused for the number of its fields
\* without a store call, the store holding a row, while another payload is
\* past the validation.
PayloadRefusedWitness ==
    /\ resp.op = "api_scan_qr"
    /\ resp.status = 400
    /\ resp.body = "bad_format"
    /\ resp.reads = 0
    /\ Len(equipment) > 0
    /\ \E r \in Reqs : pc[r] = "insert"

\* A form lacks a mandatory field: it is absent or empty.
LacksMandatory(form) ==
    \E k \in {"equipment_id", "installation_date", "dealer_code"} :
        form[k] \in {None, Some("")}

\* C9: a commit whose form lacks equipment_id, installation_date or
\* dealer_code is refused with 400 before any store call, the store unchanged;
\* a form with the three given reaches the store, with or without
\* carrier_info, latitude and longitude.
FormValidation ==
    [][\A r \in {q \in Reqs : Starts(q, "update_installation_date", "update")} :
       \A form \in Forms :
          update_installation_date(r, form, BOOLEAN)
          => IF LacksMandatory(form)
             THEN /\ pc'[r] = "idle"
                  /\ resp'.req = r
                  /\ resp'.status = 400
                  /\ resp'.reads = 0
                  /\ resp'.writes = 0
                  /\ equipment' = equipment
             ELSE \/ pc'[r] = "update"
                  \/ /\ resp'.req = r
                     /\ resp'.reads = 1]_vars

\* C9 witness: a form without its dealer code has been refused, and a form
\* without the optional fields is past the validation.
FormRefusedWitness ==
    /\ resp.status = 400
    /\ resp.body = "no_dealer"
    /\ \E r \in Reqs :
          /\ pc[r] = "update"
          /\ local[r].carrier_info = Some("")
          /\ local[r].latitude = Some("")

Identity ==
    {"id", "access_token", "product_code", "product_name", "model",
     "unit_number", "customer", "created_at"}

\* C10: a commit answered with success on a PENDING row sets the row's
\* installation_date, carrier_info and dealer_code to the submitted values
\* and its registration_timestamp and updated_at to the instants the clock
\* showed at its two readings during the request, the second no earlier than
\* the first, keeps the row's identity and descriptive columns, and changes no other row.
CommitWritesOnlyRegistration ==
    [][\A r \in Reqs :
          (/\ CommitEnds(r)
           /\ resp'.status = 200
           /\ \E i \in Addressed(local[r].equipment_id) :
                 equipment[i].installation_date = None)
          => /\ Len(equipment') = Len(equipment)
             /\ \E now \in Now :
                \E later \in {t \in Now : now <= t} :
                \A i \in Ids :
                   IF i \in Addressed(local[r].equipment_id)
                   THEN /\ equipment'[i].installation_date = local[r].installation_date
                        /\ equipment'[i].carrier_info = local[r].carrier_info
                        /\ equipment'[i].dealer_code = local[r].dealer_code
                        /\ equipment'[i].registration_timestamp = Some(now)
                        /\ equipment'[i].updated_at = Some(later)
                        /\ \A c \in Identity : equipment'[i][c] = equipment[i][c]
                   ELSE equipment'[i] = equipment[i]]_vars

\* C10 witness: a commit has installed a PENDING row at an instant later than
\* its creation, beside another row.
CommitWitness ==
    /\ resp.body = "registered"
    /\ resp.replaced = {None}
    /\ Len(equipment) = 2
    /\ \E i \in Addressed(resp.target) :
          /\ equipment[i].installation_date = resp.written
          /\ equipment[i].registration_timestamp = Some(equipment[i].created_at + 1)

\* C11: every row holds both registration coordinates or neither: a commit
\* never writes one coordinate without the other.
GpsPairTogether ==
    \A i \in Ids :
        equipment[i].registration_latitude = None
        <=> equipment[i].registration_longitude = None

\* C12: a scan the store answers is answered 404 when no row holds the token,
\* with the verification view when the row that holds it has its
\* installation_date set and with the registration form when it is null; a
\* commit answered with success leaves the rows it addresses with a date, and
\* a row with a date keeps one: every later scan of its token that the store
\* answers renders the verification view.
ScanRendersByState ==
    [][/\ \A i \in Ids :
             equipment[i].installation_date # None
             => /\ i <= Len(equipment')
                /\ equipment'[i].installation_date # None
       /\ \A r \in Reqs :
             (CommitEnds(r) /\ resp'.status = 200)
             => \A i \in Addressed(local[r].equipment_id) :
                   equipment'[i].installation_date # None
       /\ \A r \in {q \in Reqs : pc' = pc /\ Starts(q, "scan", "scan")} :
          \A token \in Tokens, accept \in FewAcceptLists :
             scan(r, token, accept, {TRUE})
             => LET holders == {i \in Ids : equipment[i].access_token = token}
                IN  /\ resp'.req = r
                    /\ IF holders = {}
                       THEN resp'.status = 404
                       ELSE /\ resp'.status = 200
                            /\ \E i \in holders :
                                  /\ resp'.id = i
                                  /\ resp'.body =
                                        IF equipment[i].installation_date # None
                                        THEN "verification.html"
                                        ELSE "scan.html"]_vars

\* C12 witness: the last answer is the verification view, for the token of a
\* row that a commit has installed.
ScanVerificationWitness ==
    /\ resp.op = "scan"
    /\ resp.status = 200
    /\ resp.body = "verification.html"
    /\ equipment[resp.id].installation_date \in {Some(d) : d \in Dates}
    /\ equipment[resp.id].dealer_code = Some("D1")

\* The supported languages a header accepts with a positive quality, and the
\* highest quality it gives one of them.
Supported == {supported_langs[i] : i \in 1..Len(supported_langs)}
Acceptable(accept) ==
    {accept[k].value : k \in {j \in 1..Len(accept) :
                                accept[j].value \in Supported /\ accept[j].quality > 0}}
TopQuality(accept) ==
    CHOOSE q \in 0..10 :
        /\ \E k \in 1..Len(accept) : accept[k].value \in Supported /\ accept[k].quality = q
        /\ \A k \in 1..Len(accept) : accept[k].value \in Supported => accept[k].quality <= q

\* C13, as stated: when the record's country has an entry in the
\* country-to-language table, get_language returns that entry's language.
CountryDecidesLanguage ==
    (/\ resp.op = "get_language"
     /\ resp.equipment.country # None
     /\ resp.equipment.country[1] \in DOMAIN COUNTRY_LANG_MAP)
    => resp.body = COUNTRY_LANG_MAP[resp.equipment.country[1]]

\* C13, amended: whatever the record's country, get_language returns a
\* supported language that the header accepts with its highest positive
\* quality, and 'en' when the header accepts no supported language.
LanguageFromHeaderOnly ==
    resp.op = "get_language"
    => IF Acceptable(resp.accept) = {}
       THEN resp.body = "en"
       ELSE /\ resp.body \in Acceptable(resp.accept)
            /\ \E k \in 1..Len(resp.accept) :
                  /\ resp.accept[k].value = resp.body
                  /\ resp.accept[k].quality = TopQuality(resp.accept)

\* C13 witness: a record of Korea and a header that asks for French: French
\* is returned.
LanguageFromHeaderWitness ==
    /\ resp.op = "get_language"
    /\ resp.equipment.country = Some("KR")
    /\ resp.accept = <<Lang("fr", 10)>>
    /\ resp.body = "fr"

\* C14: get_language is total: for every record and every header, the empty
\* one included, it has a result, and every result is a supported language;
\* with no stored country and French preferred to English it returns 'fr';
\* with a header that names no supported language it returns 'en'.
LanguageTotal ==
    /\ \A equip \in LangRecords, accept \in AcceptLists :
          /\ get_language(equip, accept) # {}
          /\ get_language(equip, accept) \subseteq Supported
    /\ resp.op = "get_language"
       => /\ resp.body \in Supported
          /\ (/\ resp.equipment.country = None
              /\ resp.accept = <<Lang("fr", 10), Lang("en", 9)>>)
             => resp.body = "fr"
          /\ (\A k \in 1..Len(resp.accept) : resp.accept[k].value \notin Supported)
             => resp.body = "en"

\* C14 witness: no stored country, French preferred to English: 'fr'.
LanguageTotalWitness ==
    /\ resp.op = "get_language"
    /\ resp.equipment.country = None
    /\ resp.accept = <<Lang("fr", 10), Lang("en", 9)>>
    /\ resp.body = "fr"

\* The last answer is a report of handler op, successfully built.
Reported(op) == resp.op = op /\ resp.status = 200

\* The installed rows whose lead time lies between two bounds.
LeadBetween(lo, hi) ==
    {i \in Ids : /\ equipment[i].installation_date # None
                 /\ lo <= lead_time(equipment[i])
                 /\ lead_time(equipment[i]) <= hi}

\* C15: in the dashboard's lead-time distribution, bucket 0-7 counts the
\* installed rows with a lead time of 0 to 7 days (and those installed before
\* their creation, of which the claim says nothing), 8-14 those of 8 to 14,
\* 15-30 those of 15 to 30, 31-60 those of 31 to 60 and 60+ those above 60;
\* a row installed 7 days after its creation is in 0-7, one installed 8 or 10
\* days after it in 8-14.
LeadTimeBuckets ==
    Reported("dashboard")
    => /\ resp.lead_time_ranges["0-7"]
             = Cardinality(LeadBetween(0, 7)) + Cardinality(LeadBetween(0 - 400, 0 - 1))
       /\ resp.lead_time_ranges["8-14"] = Cardinality(LeadBetween(8, 14))
       /\ resp.lead_time_ranges["15-30"] = Cardinality(LeadBetween(15, 30))
       /\ resp.lead_time_ranges["31-60"] = Cardinality(LeadBetween(31, 60))
       /\ resp.lead_time_ranges["60+"] = Cardinality(LeadBetween(61, 400))
       /\ \A i \in Ids :
             equipment[i].created_at = 0
             => /\ equipment[i].installation_date = Some("2025-01-08")
                   => /\ lead_time(equipment[i]) = 7
                      /\ resp.lead_time_ranges["0-7"] >= 1
                /\ equipment[i].installation_date \in {Some("2025-01-09"), Some("2025-01-11")}
                   => /\ lead_time(equipment[i]) \in {8, 10}
                      /\ resp.lead_time_ranges["8-14"] >= 1

\* C15 witness: the dashboard has counted a row installed 7 days after its
\* creation in 0-7 and one installed 61 days after it in 60+.
LeadTimeBucketsWitness ==
    /\ Reported("dashboard")
    /\ Len(equipment) = 2
    /\ equipment[1].created_at = 0
    /\ equipment[1].installation_date = Some("2025-01-08")
    /\ equipment[2].created_at = 0
    /\ equipment[2].installation_date = Some("2025-03-03")
    /\ resp.lead_time_ranges["0-7"] = 1
    /\ resp.lead_time_ranges["60+"] = 1

\* The rows of a model group, the pending rows and the sum of one counter
\* over the groups of a breakdown.
OfModel(model) == {i \in Ids : equipment[i].model = model}
PendingRows == {i \in Ids : equipment[i].installation_date = None}
RECURSIVE SumOver(_, _, _)
SumOver(stats, groups, counter) ==
    IF groups = {} THEN 0
    ELSE LET g == CHOOSE x \in groups : TRUE
         IN  stats[g][counter] + SumOver(stats, groups \ {g}, counter)

\* A breakdown counts, for each model of the table, its rows and its pending
\* rows, completed being the rest, and its counters sum to the global ones.
BreakdownAddsUp(stats, total, pending, completed) ==
    /\ \A g \in DOMAIN stats :
          /\ stats[g].total = stats[g].pending + stats[g].completed
          /\ stats[g].pending >= 0 /\ stats[g].completed >= 0
    /\ \A i \in Ids :
          /\ equipment[i].model \in DOMAIN stats
          /\ stats[equipment[i].model].total = Cardinality(OfModel(equipment[i].model))
          /\ stats[equipment[i].model].pending
                = Cardinality(OfModel(equipment[i].model) \cap PendingRows)
    /\ SumOver(stats, DOMAIN stats, "total") = total
    /\ SumOver(stats, DOMAIN stats, "pending") = pending
    /\ SumOver(stats, DOMAIN stats, "completed") = completed

\* C16: whatever the table, api_stats and dashboard report as pending the
\* number of rows whose installation_date is null and as completed the total
\* less the pending; in every model group total = pending + completed, and
\* the totals, pendings and completeds of the groups sum to the global ones.
StatsAddUp ==
    /\ Reported("api_stats")
       => /\ resp.total = Len(equipment)
          /\ resp.pending = Cardinality(PendingRows)
          /\ resp.completed = resp.total - resp.pending
          /\ BreakdownAddsUp(resp.by_model, resp.total, resp.pending, resp.completed)
    /\ Reported("dashboard")
       => /\ resp.total_count = Len(equipment)
          /\ resp.pending_count = Cardinality(PendingRows)
          /\ resp.completed_count = resp.total_count - resp.pending_count
          /\ BreakdownAddsUp(resp.model_stats, resp.total_count,
                             resp.pending_count, resp.completed_count)

\* C16 witness: api_stats has reported two groups, one with a pending row and
\* one with a completed row.
StatsAddUpWitness ==
    /\ Reported("api_stats")
    /\ resp.total = 2 /\ resp.pending = 1 /\ resp.completed = 1
    /\ DOMAIN resp.by_model = {Some(<<"G">>), Some(<<"H">>)}
    /\ resp.by_model[Some(<<"G">>)].pending = 1
    /\ resp.by_model[Some(<<"H">>)].completed = 1

\* The rows without a model.
Modelless == {i \in Ids : equipment[i].model = None}

\* C17: in the per-model breakdown of api_stats and of dashboard, the rows
\* without a model are counted under the sentinel bucket.
ModellessUnderSentinel ==
    /\ (Reported("api_stats") /\ Modelless # {})
       => /\ Unclassified \in DOMAIN resp.by_model
          /\ resp.by_model[Unclassified].total = Cardinality(Modelless)
    /\ (Reported("dashboard") /\ Modelless # {})
       => /\ Unclassified \in DOMAIN resp.model_stats
          /\ resp.model_stats[Unclassified].total = Cardinality(Modelless)

\* The months in which the table has a completion, and the completions of a
\* month, read off the date strings' calendar dates.
MonthOf(i) ==
    LET date == (CHOOSE e \in DateStrings : e[1] = equipment[i].installation_date[1])[2]
    IN  <<date.year, date.month>>
CompletedIn(month) ==
    {i \in Ids : equipment[i].installation_date # None /\ MonthOf(i) = month}
CompletionMonths ==
    {MonthOf(i) : i \in {j \in Ids : equipment[j].installation_date # None}}
Earlier(a, b) == a[1] * 12 + a[2] < b[1] * 12 + b[2]

\* C18: the dashboard's monthly trend gives, for each month it lists, the
\* number of completed rows installed in that calendar month; it lists at
\* most 6 months, in ascending order, each with a completion, and every month
\* with a completion that it leaves out is earlier than all it lists, the
\* list then being 6 long: they are the 6 most recent such months.
MonthlyTrend ==
    Reported("dashboard")
    => LET trend == resp.monthly_stats
           listed == {trend[k][1] : k \in 1..Len(trend)}
       IN  /\ Len(trend) <= 6
           /\ \A k \in 1..Len(trend) :
                 /\ trend[k][1] \in CompletionMonths
                 /\ trend[k][2] = Cardinality(CompletedIn(trend[k][1]))
           /\ \A k \in 1..(Len(trend) - 1) : Earlier(trend[k][1], trend[k + 1][1])
           /\ \A month \in CompletionMonths \ listed :
                 /\ Len(trend) = 6
                 /\ \A other \in listed : Earlier(month, other)

\* C18 witness: from a table with completions in eight months the dashboard
\* lists the six from 2025-02 to 2025-07, the last with two completions.
MonthlyTrendWitness ==
    /\ Reported("dashboard")
    /\ Cardinality(CompletionMonths) = 8
    /\ Len(resp.monthly_stats) = 6
    /\ resp.monthly_stats[1] = <<<<2025, 2>>, 1>>
    /\ resp.monthly_stats[6] = <<<<2025, 7>>, 2>>

\* The limit a listing request asks for: the number its limit parameter
\* spells, 100 without the parameter.
RequestedLimit(args) == IF args.limit = None THEN 100 ELSE int(args.limit[1])

\* C19: a listing answered with 200 reports as its limit the requested limit
\* (100 by default) when that is at most 1000 and 1000 otherwise, so 1000 for
\* a requested 5000; its count is the number of items it carries, and that is
\* never more than the reported limit.
ListLimitClamped ==
    [][\A r \in {q \in Reqs : Starts(q, "api_list_equipment", "api_list_equipment")} :
       \A args \in {a \in ListQueries : a.limit = None \/ is_int(a.limit[1])} :
          (resp'.status = 200 /\ api_list_equipment(r, args, {TRUE}))
          => /\ resp'.limit = IF RequestedLimit(args) > 1000
                              THEN 1000 ELSE RequestedLimit(args)
             /\ args.limit = Some("5000") => resp'.limit = 1000
             /\ resp'.count = Len(resp'.data)
             /\ resp'.count <= resp'.limit]_vars

\* C19 witness: the listing that asks for 5000 items from offset 0 (the only
\* query answered with limit 1000 and offset 0) is answered with both rows
\* of the table.
ListLimitClampedWitness ==
    /\ Reported("api_list_equipment")
    /\ resp.limit = 1000
    /\ resp.offset = 0
    /\ resp.count = 2

\* C19 witness of the cut: a listing with limit 1 of a table with two pending
\* rows carries one item.
ListLimitCutWitness ==
    /\ Reported("api_list_equipment")
    /\ resp.limit = 1
    /\ resp.count = 1
    /\ Cardinality({i \in Ids : equipment[i].installation_date = None}) = 2

\* The product codes a bulk request lists.
RequestedCodes(data) == DictGet(data[1], "product_codes", <<>>)

\* C20: a bulk look-up whose list is empty or longer than 100 is answered 400
\* with no store call; one with 1 to 100 codes, when answered 200, has
\* every requested code either as the product_code of a row in found or in
\* not_found, never both, and not_found holds only requested codes that no
\* row of the store carries.
BulkFoundOrNotFound ==
    [][\A r \in {q \in Reqs : Starts(q, "api_bulk_equipment", "api_bulk_equipment")} :
       \A data \in BulkBodies \ {None} :
          api_bulk_equipment(r, data, {TRUE})
          => LET codes == RequestedCodes(data)
                 requested == {codes[k] : k \in 1..Len(codes)}
             IN  IF Len(codes) = 0 \/ Len(codes) > 100
                 THEN resp'.status = 400 /\ resp'.reads = 0
                 ELSE resp'.status = 200
                      => LET found == {row.product_code : row \in resp'.found}
                             missing == {resp'.not_found[k] :
                                            k \in 1..Len(resp'.not_found)}
                         IN  /\ resp'.found \subseteq Rows
                             /\ requested = found \cup missing
                             /\ found \cap missing = {}
                             /\ \A code \in missing, i \in Ids :
                                   equipment[i].product_code # code]_vars

\* C20 witness: a look-up of two codes is answered with the row of one in
\* found and the other in not_found.
BulkFoundOrNotFoundWitness ==
    /\ resp.op = "api_bulk_equipment"
    /\ resp.status = 200
    /\ resp.found # {}
    /\ resp.not_found = << <<"Z">> >>

\* C20 witness of the refusal: a list of 101 codes is answered 400 with no
\* store call, on a table that has rows.
BulkRefusedWitness ==
    /\ resp.op = "api_bulk_equipment"
    /\ resp.status = 400
    /\ resp.body = "too_many"
    /\ resp.reads = 0
    /\ Ids # {}

\* Slot r takes the step that ends a request of its own with an answer.
Answers(r) ==
    /\ pc'[r] = "idle"
    /\ resp'.req = r
    /\ pc[r] # "idle" \/ pc' = pc

\* The handlers that answer with jsonify, and those that render a page.
JsonHandlers ==
    {"api_scan_qr", "api_get_equipment", "api_list_equipment", "api_bulk_equipment",
     "api_stats", "update_installation_date"}
PageHandlers == {"scan", "dashboard"}

\* A request of slot r ends in its handler's except clause (the only place a
\* handler answers 500 from): the answer is of one of the given types, the
\* store is as it was, and the handler had issued no store call (it raised
\* while parsing), one, or two when it fails at its second call.
ExceptionAnswered(r, types) ==
    (Answers(r) /\ resp'.status = 500)
    => /\ resp'.op \in JsonHandlers \cup PageHandlers
       /\ resp'.mimetype \in types[resp'.op]
       /\ equipment' = equipment
       /\ IF pc[r] = "idle"
          THEN resp'.reads + resp'.writes \in {0, 1}
          ELSE resp'.reads = 1 /\ resp'.writes = 1

ExceptionAtWriteWitness ==
    /\ resp.op = "update_installation_date"
    /\ resp.status = 500
    /\ resp.mimetype = "application/json"
    /\ resp.writes = 1

\* A listing whose limit or offset does not spell an integer.
BadNumber(args) ==
    \/ args.limit # None /\ ~is_int(args.limit[1])
    \/ args.offset # None /\ ~is_int(args.offset[1])

\* C22: a request that fails for its caller's input is answered 400 and
\* never 500: a listing whose limit or offset is not an integer, a bulk
\* look-up without a JSON body, an ingest whose payload is malformed, and a
\* commit that lacks a mandatory field.
CallerErrorsAnswered400 ==
    [][\A r \in {q \in Reqs : pc[q] = "idle" /\ pc'[q] = "idle" /\ resp'.req = q} :
          /\ \A args \in {a \in ListQueries : BadNumber(a)} :
                api_list_equipment(r, args, {TRUE}) => resp'.status = 400
          /\ api_bulk_equipment(r, None, {TRUE}) => resp'.status = 400
          /\ \A data \in {b \in Bodies : QrOf(b) = <<>> \/ ~WellFormed(QrOf(b))} :
                api_scan_qr(r, data, {TRUE}) => resp'.status = 400
          /\ \A form \in {f \in Forms : LacksMandatory(f)} :
                update_installation_date(r, form, {TRUE}) => resp'.status = 400]_vars

\* No step removes a row or renumbers one, and a step adds at most one row,
\* at the end: the step of an ingest that answers 'created'.
RowsOnlyAddedByIngest ==
    /\ Len(equipment') >= Len(equipment)
    /\ \A i \in Ids : equipment'[i].id = equipment[i].id
    /\ Len(equipment') > Len(equipment)
       => /\ Len(equipment') = Len(equipment) + 1
          /\ \E r \in Reqs :
                /\ pc[r] = "insert"
                /\ Answers(r)
                /\ resp'.op = "api_scan_qr"
                /\ resp'.status = 200
                /\ resp'.body = "created"

\* C23: no operation deletes a record: the set of ids only grows, and the
\* only step that adds a record is a successful ingest, of a product_code no
\* record carries.
RecordsNeverDeleted ==
    [][/\ RowsOnlyAddedByIngest
       /\ Len(equipment') > Len(equipment)
          => \A i \in Ids :
                equipment[i].product_code # equipment'[Len(equipment')].product_code]_vars

\* The part of C23 that does not depend on the product_code being unseen.
RecordsOnlyGrow == [][RowsOnlyAddedByIngest]_vars

\* The registration-side columns other than installation_date.
RegistrationSide ==
    {"carrier_info", "dealer_code", "registration_latitude",
     "registration_longitude", "registration_timestamp"}

\* C24: in every reachable state a record whose installation_date is null
\* has carrier_info, dealer_code, registration_latitude,
\* registration_longitude and registration_timestamp null; and a step that
\* changes one of those columns of a record is the one write of a commit
\* that addresses the record, which leaves its installation_date set.
PendingHasNoRegistration ==
    /\ [](\A i \in Ids :
             equipment[i].installation_date = None
             => \A c \in RegistrationSide : equipment[i][c] = None)
    /\ [][\A i \in Ids :
             (\E c \in RegistrationSide : equipment'[i][c] # equipment[i][c])
             => /\ equipment'[i].installation_date # None
                /\ \E r \in Reqs :
                      /\ CommitEnds(r)
                      /\ i \in Addressed(local[r].equipment_id)
                      /\ equipment'[i].installation_date = local[r].installation_date]_vars

\* C24 witness: of two records one has been committed and carries its
\* registration, the other is pending.
PendingHasNoRegistrationWitness ==
    /\ Len(equipment) = 2
    /\ resp.op = "update_installation_date"
    /\ resp.status = 200
    /\ \E i, j \in Ids :
          /\ equipment[i].installation_date # None
          /\ equipment[i].dealer_code = Some("D1")
          /\ equipment[i].registration_timestamp # None
          /\ equipment[j].installation_date = None

\* The handlers that only read.
ReadSide ==
    {"api_get_equipment", "api_list_equipment", "api_bulk_equipment", "api_stats",
     "scan", "dashboard"}

\* C25: a request served by a read-side handler (api_get_equipment,
\* api_list_equipment, api_bulk_equipment, api_stats, scan, dashboard) leaves
\* the table as it was, whatever its input and its answer: no record is
\* created, modified or removed.
ReadSideLeavesStore ==
    [][\A r \in Reqs :
          (Answers(r) /\ resp'.op \in ReadSide) => equipment' = equipment]_vars

\* C25 witness: a look-up by product code has returned a record of a table
\* that holds an installed record.
ReadSideLeavesStoreWitness ==
    /\ resp.op = "api_get_equipment"
    /\ resp.status = 200
    /\ resp.data \in Rows
    /\ \E i \in Ids : equipment[i].installation_date # None

\* Row i after the step is row i before it with the whole of a commit
\* written: the three form fields and both stamps (the coordinates are the
\* matter of C11), the product-side columns as they were.
CommitComplete(i, l) ==
    /\ equipment'[i].installation_date = l.installation_date
    /\ equipment'[i].carrier_info = l.carrier_info
    /\ equipment'[i].dealer_code = l.dealer_code
    /\ equipment'[i].registration_timestamp # None
    /\ equipment'[i].updated_at # None
    /\ \A c \in {"id", "access_token", "product_code", "product_name", "model",
                  "unit_number", "customer", "created_at"} :
          equipment'[i][c] = equipment[i][c]

\* The last row after the step is a whole new record of the ingest.
InsertComplete(l) ==
    LET new == equipment'[Len(equipment')]
    IN  /\ Len(equipment') = Len(equipment) + 1
        /\ new.product_code = l.product_code
        /\ new.product_name = l.product_name
        /\ new.model = Some(l.product_group)
        /\ new.unit_number = l.unit_number
        /\ new.customer = l.customer
        /\ new.access_token = resp'.access_token
        /\ \A c \in RegistrationSide \cup {"installation_date"} : new[c] = None

\* C26: a request issues at most one store write, in the step that ends it;
\* a request answered 500 leaves every record as it was, and a write leaves
\* each record either as it was or with the whole of the commit (or the
\* whole new record): no step writes part of one.
AtMostOneWrite ==
    [][/\ resp'.writes <= 1
       /\ equipment' # equipment
          => \E r \in Reqs :
                /\ pc[r] \in {"insert", "update"}
                /\ Answers(r)
                /\ resp'.status = 200
                /\ resp'.writes = 1
       /\ \A r \in Reqs :
             /\ (Answers(r) /\ resp'.status = 500) => equipment' = equipment
             /\ CommitEnds(r)
                => /\ Len(equipment') = Len(equipment)
                   /\ \A i \in Ids :
                         \/ equipment'[i] = equipment[i]
                         \/ /\ i \in Addressed(local[r].equipment_id)
                            /\ CommitComplete(i, local[r])
             /\ (pc[r] = "insert" /\ pc'[r] = "idle")
                => /\ \A i \in Ids : equipment'[i] = equipment[i]
                   /\ equipment' = equipment \/ InsertComplete(local[r])]_vars

\* C26 witness: the UPDATE of a commit has raised, the request is answered
\* 500 after its one write, and the records are all still pending.
AtMostOneWriteWitness ==
    /\ resp.op = "update_installation_date"
    /\ resp.status = 500
    /\ resp.writes = 1
    /\ Ids # {}
    /\ \A i \in Ids : equipment[i].installation_date = None

\* C27: a commit with its mandatory fields given and an equipment_id that
\* no record has goes on to its UPDATE and is answered with the success
\* response, while no record is created and none is modified; a commit is
\* never answered 404.
CommitOfUnknownIdSucceeds ==
    [][/\ resp'.op = "update_installation_date" => resp'.status # 404
       /\ \A r \in {q \in Reqs : Starts(q, "update_installation_date", "update")} :
          \A form \in {f \in Forms : ~LacksMandatory(f)
                                      /\ Addressed(f.equipment_id) = {}} :
             update_installation_date(r, form, {TRUE}) => pc'[r] = "update"
       /\ \A r \in Reqs :
             (CommitEnds(r) /\ Addressed(local[r].equipment_id) = {})
             => /\ resp'.req = r
                /\ resp'.status = 200
                /\ resp'.body = "registered"
                /\ equipment' = equipment]_vars

\* C27 witness: a commit addressed to id 2 of a table of one record has been
\* answered with success, and the record is still pending.
CommitOfUnknownIdWitness ==
    /\ resp.op = "update_installation_date"
    /\ resp.status = 200
    /\ resp.target = Some("2")
    /\ Len(equipment) = 1
    /\ equipment[1].installation_date = None

\* The n-th field of a well-formed payload, n from 2 to 4: what stands between
\* its separators n-1 and n, or after separator n-1 when that is the last.
FieldOf(s, n) ==
    SubSeq(s, NthSep(s, n - 1) + 1,
           IF Cardinality(Seps(s)) >= n THEN NthSep(s, n) - 1 ELSE Len(s))

\* C28: an ingest of a well-formed payload whose product_code a record
\* carries, when the store answers, performs no write: the table is as it
\* was, product_name, model, unit_number and customer included, whatever the
\* payload says; it is answered 'exists' with the payload's product_group
\* and unit_number.
ExistingRecordUntouched ==
    [][\A r \in {q \in Reqs : Starts(q, "api_scan_qr", "insert")} :
       \A data \in {b \in EchoBodies : WellFormed(QrOf(b))
                                        /\ RowsWith(CodeOf(QrOf(b))) # {}} :
          api_scan_qr(r, data, {TRUE})
          => /\ pc'[r] = "idle"
             /\ resp'.req = r
             /\ resp'.status = 200
             /\ resp'.body = "exists"
             /\ resp'.writes = 0
             /\ equipment' = equipment
             /\ resp'.product_group = FieldOf(QrOf(data), 3)
             /\ resp'.unit_number = FieldOf(QrOf(data), 4)]_vars

\* C28 witness: an ingest has been answered 'exists' with a group and a unit
\* that differ from those of the record whose token it returns.
ExistingRecordUntouchedWitness ==
    /\ resp.op = "api_scan_qr"
    /\ resp.status = 200
    /\ resp.body = "exists"
    /\ \E i \in Ids :
          /\ equipment[i].access_token = resp.access_token
          /\ equipment[i].model # Some(resp.product_group)
          /\ equipment[i].unit_number # resp.unit_number

\* C29: no record has an installation_date that is empty but not null, so
\* 'is not null' (the already_installed flag of api_scan_qr) and 'is truthy'
\* (scan, api_stats, dashboard) class every record alike: the flag of an
\* 'exists' answer is the truthiness of the date of the record whose token
\* it gives, the page of a scan is the verification page exactly when the
\* date of its record is not null, and the completed count of the reports
\* is the number of records whose date is not null.
InstalledFlagAgrees ==
    /\ \A i \in Ids : equipment[i].installation_date # Some("")
    /\ (resp.op = "api_scan_qr" /\ resp.body = "exists")
       => \E i \in Ids :
             /\ equipment[i].access_token = resp.access_token
             /\ resp.already_installed = Truthy(equipment[i].installation_date)
    /\ (resp.op = "scan" /\ resp.status = 200)
       => (resp.body = "verification.html"
           <=> equipment[resp.id].installation_date # None)
    /\ Reported("api_stats")
       => resp.completed = Cardinality({i \in Ids : equipment[i].installation_date # None})
    /\ Reported("dashboard")
       => resp.completed_count =
             Cardinality({i \in Ids : equipment[i].installation_date # None})

\* C29 witness: an ingest has found a record that is installed and says so.
InstalledFlagAgreesWitness ==
    /\ resp.op = "api_scan_qr"
    /\ resp.body = "exists"
    /\ resp.already_installed
    /\ \E i \in Ids :
          /\ equipment[i].access_token = resp.access_token
          /\ Truthy(equipment[i].installation_date)

\* The completed rows, and the lead times of a set of them added up, each
\* with its sign.
CompletedRows == {i \in Ids : equipment[i].installation_date # None}
RECURSIVE LeadSum(_)
LeadSum(ids) ==
    IF ids = {} THEN 0
    ELSE LET i == CHOOSE x \in ids : TRUE
         IN  lead_time(equipment[i]) + LeadSum(ids \ {i})

\* C30: in the dashboard every completed record is counted in exactly one
\* lead-time bucket, so the five counts sum to the number of completed
\* records, which is the number of lead times the mean is taken over; a
\* record installed before its creation is counted in 0-7 and enters the mean
\* with its negative lead time: the mean reported, in tenths, is within half
\* a tenth of the signed sum divided by the number of completed records, and
\* 0 when there is none.
LeadTimesCountedOnce ==
    Reported("dashboard")
    => LET ranges == resp.lead_time_ranges
           count == Cardinality(CompletedRows)
       IN  /\ ranges["0-7"] + ranges["8-14"] + ranges["15-30"] + ranges["31-60"]
                 + ranges["60+"] = count
           /\ ranges["0-7"]
                 = Cardinality({i \in CompletedRows : lead_time(equipment[i]) <= 7})
           /\ ranges["0-7"]
                 >= Cardinality({i \in CompletedRows : lead_time(equipment[i]) < 0})
           /\ count = 0 => resp.avg_lead_time = 0
           /\ count > 0
              => LET off == 10 * LeadSum(CompletedRows) - count * resp.avg_lead_time
                 IN  2 * off <= count /\ 0 - count <= 2 * off

\* C30 witness: of two records one was installed the day before its creation
\* and one 7 days after it: both are in 0-7 and the mean is 3.0 days.
LeadTimesCountedOnceWitness ==
    /\ Reported("dashboard")
    /\ Len(equipment) = 2
    /\ CompletedRows = {1, 2}
    /\ lead_time(equipment[1]) = 0 - 1
    /\ lead_time(equipment[2]) = 7
    /\ resp.lead_time_ranges["0-7"] = 2
    /\ resp.avg_lead_time = 30

\* C30 witness of a mean below zero: the one completed record was installed
\* two days before its creation.
NegativeMeanWitness ==
    /\ Reported("dashboard")
    /\ Cardinality(CompletedRows) = 1
    /\ resp.avg_lead_time = 0 - 20
    /\ resp.lead_time_ranges["0-7"] = 1

====
